---- MODULE Spec2Model ----
(***************************************************************************)
(* Model of the notebook Fraud_Detection_Exercise.ipynb: the three helper  *)
(* functions fraudulent_percentage, train_test_split and evaluate, run as  *)
(* notebook cells over the DataFrame transaction_df.                       *)
(*                                                                         *)
(* Python floats are IEEE-754 binary64 values.  They are modelled bit for  *)
(* bit: a value is a record [kind, exp, sig] where sig is the 53-bit       *)
(* significand, most significant bit first, and exp is the exponent of     *)
(* that first bit.  All roundings are round-to-nearest, ties-to-even.      *)
(***************************************************************************)
EXTENDS Integers, Sequences, FiniteSets, TLC

\* ------------------------------------------------------------------------
\* Bounds of the model
\* ------------------------------------------------------------------------
MaxRows == 3

MaxCutRows == 10

MaxCalls == 2

MaxEvalRows == 4

MaxScenarioRows == 100
\* requests the alerting Lambda function handles
MaxRequests == 3
\* rows of the largest test set passed to evaluate
MaxTestRows == 10001
\* calls of delete_endpoint on the predictor
MaxDeletes == 3

\* ------------------------------------------------------------------------
\* binary64 arithmetic
\* ------------------------------------------------------------------------
Precision == 53

Zeros(k) == [i \in 1..k |-> 0]

FZero == [kind |-> "zero", exp |-> 0, sig |-> <<>>]

FNaN == [kind |-> "nan", exp |-> 0, sig |-> <<>>]

FOne == [kind |-> "num", exp |-> 0, sig |-> <<1>> \o Zeros(Precision - 1)]

\* the significand plus one unit in the last place
IncSig(sig, e) ==
    IF \A i \in 1..Len(sig) : sig[i] = 1
    THEN [kind |-> "num", exp |-> e + 1, sig |-> <<1>> \o Zeros(Len(sig) - 1)]
    ELSE LET z == CHOOSE i \in 1..Len(sig) :
                     sig[i] = 0 /\ \A j \in (i+1)..Len(sig) : sig[j] = 1
         IN [kind |-> "num", exp |-> e,
             sig |-> [i \in 1..Len(sig) |->
                        IF i < z THEN sig[i] ELSE IF i = z THEN 1 ELSE 0]]

\* round a bit string (first bit 1, of weight 2^e) to 53 bits, ties to even
RoundBits(bits, e) ==
    IF Len(bits) <= Precision
    THEN [kind |-> "num", exp |-> e, sig |-> bits \o Zeros(Precision - Len(bits))]
    ELSE LET head   == SubSeq(bits, 1, Precision)
             guard  == bits[Precision + 1]
             sticky == \E i \in (Precision + 2)..Len(bits) : bits[i] = 1
         IN IF guard = 1 /\ (sticky \/ head[Precision] = 1)
            THEN IncSig(head, e)
            ELSE [kind |-> "num", exp |-> e, sig |-> head]

\* the w low binary digits of a natural number, most significant first
WidthBits(v, w) == [i \in 1..w |-> (v \div 2^(w - i)) % 2]

\* binary digits of a natural number below 2^30 without leading zeros (0 is <<>>)
NatBits(v) ==
    IF v = 0 THEN <<>>
    ELSE WidthBits(v, CHOOSE w \in 1..30 : 2^(w-1) <= v /\ v < 2^w)

RECURSIVE BitsNat(_)
\* the natural number written by at most 30 binary digits
BitsNat(bits) ==
    IF Len(bits) = 0 THEN 0
    ELSE IF Len(bits) = 1 THEN bits[1]
    ELSE LET h == Len(bits) \div 2
         IN BitsNat(SubSeq(bits, 1, h)) * 2^(Len(bits) - h)
              + BitsNat(SubSeq(bits, h + 1, Len(bits)))

RECURSIVE Normalise(_, _, _)
\* scale a/b by powers of two until 1 <= a/b < 2
Normalise(a, b, e) ==
    IF a >= 2 * b THEN Normalise(a, 2 * b, e + 1)
    ELSE IF a < b THEN Normalise(2 * a, b, e - 1)
    ELSE <<a, b, e>>

RECURSIVE DivBits(_, _, _)
\* k further quotient bits of r/b (r < b < 2^17), then a sticky bit for the
\* rest; long division, 13 bits at a time
DivBits(r, b, k) ==
    IF k = 0 THEN << IF r = 0 THEN 0 ELSE 1 >>
    ELSE LET c == IF k < 13 THEN k ELSE 13
             t == r * 2^c
         IN WidthBits(t \div b, c) \o DivBits(t % b, b, k - c)

\* the correctly rounded quotient a / b of two small naturals, b > 0
FloatDiv(a, b) ==
    IF a = 0 THEN FZero
    ELSE LET n == Normalise(a, b, 0)
         IN RoundBits(<<1>> \o DivBits(n[1] - n[2], n[2], Precision), n[3])

\* 1 - x for 0 <= x <= 1
OneMinus(x) ==
    IF x.kind = "zero" THEN FOne
    ELSE IF x.exp >= 0 THEN FZero
    ELSE LET frac == Zeros(-1 - x.exp) \o x.sig
             F    == Len(frac)
             t    == CHOOSE i \in 1..F :
                         frac[i] = 1 /\ \A j \in (i+1)..F : frac[j] = 0
             R    == [i \in 1..F |->
                        IF i < t THEN 1 - frac[i] ELSE IF i = t THEN 1 ELSE 0]
             s    == CHOOSE i \in 1..F : R[i] = 1 /\ \A j \in 1..(i-1) : R[j] = 0
         IN RoundBits(SubSeq(R, s, F), -s)

\* n * sig for n < 2^12: the 53 bits are cut into limbs of 17, 18 and 18 bits
\* that are multiplied separately, carries going upward
MulBits(n, sig) ==
    LET Limb == 18
        lo  == n * BitsNat(SubSeq(sig, Precision - Limb + 1, Precision))
        mid == n * BitsNat(SubSeq(sig, Precision - 2 * Limb + 1, Precision - Limb))
                 + lo \div 2^Limb
        hi  == n * BitsNat(SubSeq(sig, 1, Precision - 2 * Limb))
                 + mid \div 2^Limb
    IN NatBits(hi) \o WidthBits(mid % 2^Limb, Limb) \o WidthBits(lo % 2^Limb, Limb)

\* n * y for a natural number n (converted exactly) and a double y >= 0
MulInt(n, y) ==
    IF n = 0 \/ y.kind = "zero" THEN FZero
    ELSE LET prod == MulBits(n, y.sig)
         IN RoundBits(prod, y.exp - (Precision - 1) + (Len(prod) - 1))

\* int(z): truncation toward zero of a double 0 <= z < 2^31
Trunc(z) ==
    IF z.kind = "zero" \/ z.exp < 0 THEN 0
    ELSE BitsNat(SubSeq(z.sig, 1, z.exp + 1))

\* 0 <= z <= 1
InUnitInterval(z) ==
    \/ z.kind = "zero"
    \/ z.kind = "num" /\ z.exp < 0
    \/ z = FOne

\* numpy true division of two non-negative int64 scalars: a zero divisor
\* gives nan (0/0) or inf with a RuntimeWarning, no exception
FInf == [kind |-> "inf", exp |-> 0, sig |-> <<>>]

NpDivide(a, b) ==
    IF b = 0 THEN (IF a = 0 THEN FNaN ELSE FInf) ELSE FloatDiv(a, b)

\* Python true division of two ints: a zero divisor raises
ZeroDivisionError == [kind |-> "ZeroDivisionError", exp |-> 0, sig |-> <<>>]

\* (mutation) the quotient of numpy scalars: nan or inf instead of an exception
PyDivideAsNumpy(a, b) == NpDivide(a, b)

\* (mutation) floor division of two ints
PyFloorDivide(a, b) ==
    IF b = 0 THEN ZeroDivisionError ELSE IF a \div b = 0 THEN FZero ELSE FOne

PyDivide(a, b) == IF b = 0 THEN ZeroDivisionError ELSE FloatDiv(a, b)

None == [kind |-> "None", exp |-> 0, sig |-> <<>>]

\* ------------------------------------------------------------------------
\* State
\* ------------------------------------------------------------------------
VARIABLES
    transaction_df,   \* the DataFrame: its rows in storage order, whether
                      \* all columns share one dtype (a single 2-D block),
                      \* and the number of its columns
    loaded,           \* the rows as read_csv loaded them (history variable)
    np_random,        \* state of numpy's global generator
    mt,               \* draws of the generator per seed, as far as observed
    fraud_percentage, \* notebook global set by the fraud percentage cell
    matrix_df,        \* the array the current split results are slices of
    train_features, train_labels, test_features, test_labels,
                      \* notebook globals: slices (views) of matrix_df
    returned,         \* what each train_test_split call returned, at its
                      \* return (history variable)
    test_preds,       \* predictions concatenated by the last evaluate
    predict_calls,    \* the calls predictor.predict(batch) of the last evaluate:
                      \* the batch passed, the labels predicted (history
                      \* variable)
    metrics,          \* notebook global set by the evaluate cell
    pc,               \* the cell "Run All" executes next
    linlearn,         \* the LinearLearner estimator: fitted or not
    endpoint,         \* the SageMaker endpoint behind linear_predictor
    result,           \* notebook global set by the test prediction cell
    delete_called,    \* whether delete_endpoint was called (history variable)
    delete_output,    \* per call of delete_endpoint: how the remote deletion
                      \* went, what the call printed, whether it raised
                      \* (history variable)
    invoked,          \* the invocations of the endpoint: the cell, and how
                      \* things stood when it invoked (history variable)
    lambda_runs,      \* README: the requests lambda_handler handled, each
                      \* with the calls it made and what it returned
    sns_topic         \* README: the messages published to the SNS topic

serviceVars == <<linlearn, endpoint, result, delete_called, delete_output, invoked>>

lambdaVars == <<lambda_runs, sns_topic>>

vars == <<transaction_df, loaded, np_random, mt, fraud_percentage, matrix_df,
          train_features, train_labels, test_features, test_labels, returned,
          test_preds, predict_calls, metrics, pc, serviceVars, lambdaVars>>

splitVars == <<transaction_df, np_random, mt, matrix_df, train_features,
               train_labels, test_features, test_labels, returned>>

evalVars == <<test_preds, predict_calls, metrics>>

\* ------------------------------------------------------------------------
\* Inputs
\* ------------------------------------------------------------------------
\* labels of the 'Class' column: 0 = valid, 1 = fraudulent
Labels == {0, 1}

\* seeds passed to train_test_split; 1 is the default
Seeds == {1, 2}

\* test_size literals, in hundredths; 0.3 is the default.  A literal d/100 is
\* the double nearest to it
TestSizes == {30, 80}

\* the ends of the range of test_size: 0 and 1
EdgeTestSizes == {0, 100}

Literal(d) == FloatDiv(d, 100)

\* the row counts of the scenario tables
ScenarioRows == (MaxScenarioRows - 2)..MaxScenarioRows

\* the row counts of the tables of the specifications below
RowCounts == (0..(MaxRows + MaxCutRows + MaxEvalRows)) \cup ScenarioRows

\* the quotients of two row counts, computed once
Quotients == [a \in RowCounts, b \in RowCounts |-> PyDivide(a, b)]

NpQuotients == [a \in RowCounts, b \in RowCounts |-> NpDivide(a, b)]

\* the quotient of two counts, from the table where the table holds it
NpQuotient(a, b) ==
    IF a \in RowCounts /\ b \in RowCounts THEN NpQuotients[a, b] ELSE NpDivide(a, b)

\* a row is a feature vector x and a label y; the rows of a loaded table
\* carry distinct feature vectors 1..n so that each can be followed
Table(n, labels) == [i \in 1..n |-> [x |-> i, y |-> labels[i]]]

Tables(maxRows) ==
    UNION { { Table(n, l) : l \in [1..n -> Labels] } : n \in 0..maxRows }

\* ------------------------------------------------------------------------
\* fraudulent_percentage
\* ------------------------------------------------------------------------
IsFraud(row) == row.y = 1

\* (mutation) the filter keeps the valid rows instead of the fraudulent ones
FraudulentPercentageOfValid(df) ==
    Quotients[Len(df.rows) - Len(SelectSeq(df.rows, IsFraud)), Len(df.rows)]

\* transaction_df[transaction_df['Class']==1].shape[0] / transaction_df.shape[0]
FraudulentPercentage(df) ==
    Quotients[Len(SelectSeq(df.rows, IsFraud)), Len(df.rows)]

\* ------------------------------------------------------------------------
\* train_test_split
\* ------------------------------------------------------------------------
\* transaction_df.values: a frame whose columns share one dtype hands out its
\* own block (a view); a frame of mixed dtypes builds a new array
ValuesIsView(df) == df.single_dtype

\* the draws random_interval(i) of one shuffle of n rows, for i = n-1 .. 1:
\* the k-th draw lies in 0 .. n-k
DrawSeqs(n) ==
    IF n < 2 THEN { <<>> }
    ELSE { d \in [1..(n-1) -> 0..(n-1)] : \A k \in 1..(n-1) : d[k] <= n - k }

\* rows a and b exchanged (SubSeq makes the result a plain sequence)
Swap(rows, a, b) ==
    SubSeq([i \in 1..Len(rows) |->
              IF i = a THEN rows[b] ELSE IF i = b THEN rows[a] ELSE rows[i]],
           1, Len(rows))

RECURSIVE SwapsFrom(_, _, _, _)
\* where the swaps of draws lo..hi, applied in order, take the rows of an
\* n-row array from: draw k swaps row n-k with row draws[k] (0-based), as
\* numpy's shuffle does for i = n-1 down to 1; the result holds at place i
\* the place whose row ends up at i
SwapsFrom(n, draws, lo, hi) ==
    IF lo > hi THEN [i \in 1..n |-> i]
    ELSE IF lo = hi THEN Swap([i \in 1..n |-> i], n - lo + 1, draws[lo] + 1)
    ELSE LET mid   == (lo + hi) \div 2
             first == SwapsFrom(n, draws, lo, mid)
             then  == SwapsFrom(n, draws, mid + 1, hi)
         IN SubSeq([i \in 1..n |-> first[then[i]]], 1, n)

\* (mutation) the swaps move the feature columns and leave the labels
ShuffleFeaturesOnly(rows, draws) ==
    LET from == SwapsFrom(Len(rows), draws, 1, Len(rows) - 1)
    IN SubSeq([i \in 1..Len(rows) |-> [x |-> rows[from[i]].x, y |-> rows[i].y]],
              1, Len(rows))

\* np.random.shuffle(matrix_df): shuffles whole rows along the first axis
Shuffle(rows, draws) ==
    LET from == SwapsFrom(Len(rows), draws, 1, Len(rows) - 1)
    IN SubSeq([i \in 1..Len(rows) |-> rows[from[i]]], 1, Len(rows))

\* (mutation) the product takes test_size instead of 1 - test_size
TrainSizeOfTestFraction(n, d) == Trunc(MulInt(n, Literal(d)))

\* int(len(matrix_df) * (1 - test_size)), test_size the literal d/100
TrainSize(n, d) == Trunc(MulInt(n, OneMinus(Literal(d))))

\* the same, computed once for the row counts and literals of the model
TrainSizes == [n \in RowCounts, d \in TestSizes \cup EdgeTestSizes |-> TrainSize(n, d)]

\* matrix_df[:train_size] and matrix_df[train_size:], as row ranges 1..n
NoSlice == [defined |-> FALSE, lo |-> 1, hi |-> 0]

\* (mutation) the training slice stops one row early
TrainSliceShort(train_size, n) ==
    [defined |-> TRUE, lo |-> 1,
     hi |-> (IF train_size < n THEN train_size ELSE n) - 1]

TrainSlice(train_size, n) ==
    [defined |-> TRUE, lo |-> 1, hi |-> IF train_size < n THEN train_size ELSE n]

\* (mutation) the test slice starts at the last training row
TestSliceOverlapping(train_size, n) ==
    [defined |-> TRUE, lo |-> IF train_size < 1 THEN 1 ELSE train_size, hi |-> n]

TestSlice(train_size, n) ==
    [defined |-> TRUE, lo |-> (IF train_size < n THEN train_size ELSE n) + 1, hi |-> n]

\* the rows a slice of matrix_df shows now: a slice of an array that is a view
\* of the frame's block shows the frame's current rows
MatrixRows == IF matrix_df.view THEN transaction_df.rows ELSE matrix_df.rows

SliceRows(slice) == SubSeq(MatrixRows, slice.lo, slice.hi)

\* [:, :-1] and [:, -1]
FeatureColumns(rows) == [i \in 1..Len(rows) |-> rows[i].x]

\* (mutation) the label is taken from the first column
LabelColumnFirst(rows) == [i \in 1..Len(rows) |-> rows[i].x]

LabelColumn(rows) == [i \in 1..Len(rows) |-> rows[i].y]

\* ------------------------------------------------------------------------
\* evaluate
\* ------------------------------------------------------------------------
NumBatches == 100

\* (mutation) every part also holds the first element of the next part
ArraySplitOverlapping(ary, sections) ==
    LET each   == Len(ary) \div sections
        extras == Len(ary) % sections
        start(i) == (i - 1) * each + (IF i - 1 < extras THEN i - 1 ELSE extras)
        end(i) == IF start(i + 1) < Len(ary) THEN start(i + 1) + 1 ELSE Len(ary)
    IN [i \in 1..sections |-> SubSeq(ary, start(i) + 1, end(i))]

\* np.array_split(ary, sections): the first len % sections parts hold one
\* element more than the others
ArraySplit(ary, sections) ==
    LET each   == Len(ary) \div sections
        extras == Len(ary) % sections
        start(i) == (i - 1) * each + (IF i - 1 < extras THEN i - 1 ELSE extras)
    IN [i \in 1..sections |-> SubSeq(ary, start(i) + 1, start(i + 1))]

\* predictor.predict(batch): one predicted_label per data point of the batch
Predict(model, batch) == [i \in 1..Len(batch) |-> model[batch[i]]]

RECURSIVE Concatenate(_, _, _)
\* np.concatenate of parts lo..hi
Concatenate(parts, lo, hi) ==
    IF lo > hi THEN <<>>
    ELSE IF lo = hi THEN parts[lo]
    ELSE LET mid == (lo + hi) \div 2
         IN Concatenate(parts, lo, mid) \o Concatenate(parts, mid + 1, hi)

\* [predictor.predict(batch) for batch in np.array_split(test_features, 100)]:
\* the calls made, in order
PredictCalls(model, features) ==
    LET batches == ArraySplit(features, NumBatches)
    IN SubSeq([b \in 1..NumBatches |->
                 [batch |-> batches[b], predicted |-> Predict(model, batches[b])]],
              1, NumBatches)

TestPreds(model, features) ==
    LET batches == ArraySplit(features, NumBatches)
        prediction_batches == [b \in 1..NumBatches |-> Predict(model, batches[b])]
    IN Concatenate(prediction_batches, 1, NumBatches)

\* np.logical_and(a, b).sum(): number of positions where both are non-zero
LogicalAndSum(a, b) == Cardinality({i \in 1..Len(a) : a[i] # 0 /\ b[i] # 0})

\* 1 - array
Complement(a) == [i \in 1..Len(a) |-> 1 - a[i]]

TruePositives(labels, preds) == LogicalAndSum(labels, preds)

\* (mutation) the labels are not complemented
FalsePositivesUncomplemented(labels, preds) == LogicalAndSum(labels, preds)

FalsePositives(labels, preds) == LogicalAndSum(Complement(labels), preds)

\* (mutation) only the labels are complemented
TrueNegativesHalfComplemented(labels, preds) == LogicalAndSum(Complement(labels), preds)

TrueNegatives(labels, preds) == LogicalAndSum(Complement(labels), Complement(preds))

FalseNegatives(labels, preds) == LogicalAndSum(labels, Complement(preds))

\* (mutation) recall divides by the predicted positives
RecallOverPredicted(tp, fp, tn, fn) == NpQuotient(tp, tp + fp)

Recall(tp, fp, tn, fn) == NpQuotient(tp, tp + fn)

PrecisionOf(tp, fp, tn, fn) == NpQuotient(tp, tp + fp)

Accuracy(tp, fp, tn, fn) == NpQuotient(tp + tn, tp + fp + tn + fn)

Evaluate(model, features, labels) ==
    LET preds == TestPreds(model, features)
        tp == TruePositives(labels, preds)
        fp == FalsePositives(labels, preds)
        tn == TrueNegatives(labels, preds)
        fn == FalseNegatives(labels, preds)
    IN [TP |-> tp, FP |-> fp, FN |-> fn, TN |-> tn,
        Precision |-> PrecisionOf(tp, fp, tn, fn),
        Recall |-> Recall(tp, fp, tn, fn),
        Accuracy |-> Accuracy(tp, fp, tn, fn)]

NoMetrics == [TP |-> 0, FP |-> 0, FN |-> 0, TN |-> 0,
              Precision |-> None, Recall |-> None, Accuracy |-> None]

\* ------------------------------------------------------------------------
\* The notebook cells
\* ------------------------------------------------------------------------
\* what one call train_test_split(df, test_size, seed) does, the generator
\* answering the shuffle with the draws given
TrainTestSplit(df, d, seed, draws) ==
    LET n          == Len(df.rows)
        view       == ValuesIsView(df)
        shuffled   == Shuffle(df.rows, draws)
        train_size == TrainSizes[n, d]
        train      == TrainSlice(train_size, n)
        test       == TestSlice(train_size, n)
        trainRows  == SubSeq(shuffled, train.lo, train.hi)
        testRows   == SubSeq(shuffled, test.lo, test.hi)
    IN [transaction_df |-> IF view THEN [df EXCEPT !.rows = shuffled] ELSE df,
        matrix_df      |-> [view |-> view, rows |-> IF view THEN <<>> ELSE shuffled],
        np_random      |-> [seed |-> seed, pos |-> Len(draws)],
        train          |-> train,
        test           |-> test,
        returned       |-> [seed |-> seed, test_size |-> d, table |-> df.rows,
                            shuffled |-> shuffled,
                            train_features |-> FeatureColumns(trainRows),
                            train_labels   |-> LabelColumn(trainRows),
                            test_features  |-> FeatureColumns(testRows),
                            test_labels    |-> LabelColumn(testRows)]]

\* the draws the generator gives after np.random.seed(seed): those it gave
\* before for this seed, or, for a seed not used yet, any
DrawsFor(seed, n) == IF seed \in DOMAIN mt THEN { mt[seed] } ELSE DrawSeqs(n)

\* (mutation) the endpoint is deleted before the evaluate cell
CellsTearDownFirst ==
    << "fraud_percentage", "train_test_split", "fit", "deploy", "predict",
       "delete_endpoint", "evaluate" >>

\* the code cells that act on the state, in the order of the notebook
Cells == << "fraud_percentage", "train_test_split", "fit", "deploy", "predict",
            "evaluate", "delete_endpoint" >>

\* the cell after cell c, "done" after the last
Following(c) ==
    LET k == CHOOSE i \in DOMAIN Cells : Cells[i] = c
    IN IF k = Len(Cells) THEN "done" ELSE Cells[k + 1]

\* where "Run All" stands after cell c ran: it moves to the next cell, or
\* stops when the cell raised; a cell run by hand leaves it where it is
Advance(c, raised) ==
    IF pc # c THEN pc ELSE IF raised THEN "halted" ELSE Following(c)

\* (mutation) the selection of the fraud rows is made in the table itself
FraudulentPercentageCallInPlace(df) ==
    [fraud_percentage |-> FraudulentPercentage(df),
     transaction_df   |-> [df EXCEPT !.rows = SelectSeq(df.rows, IsFraud)]]

\* what one call fraudulent_percentage(df) does: the value it returns (or the
\* exception), and the table as the call leaves it; the selection
\* transaction_df[transaction_df['Class']==1] builds a new frame
FraudulentPercentageCall(df) ==
    [fraud_percentage |-> FraudulentPercentage(df),
     transaction_df   |-> df]

\* fraud_percentage = fraudulent_percentage(transaction_df)
FraudPercentageCell ==
    /\ \E out \in { FraudulentPercentageCall(transaction_df) } :
         /\ fraud_percentage' = out.fraud_percentage
         /\ transaction_df' = out.transaction_df
    /\ pc' = Advance("fraud_percentage", fraud_percentage' = ZeroDivisionError)
    /\ UNCHANGED <<loaded, np_random, mt, matrix_df, train_features,
                   train_labels, test_features, test_labels, returned,
                   evalVars, serviceVars, lambdaVars>>

\* (train_features, train_labels), (test_features, test_labels) =
\*     train_test_split(transaction_df, test_size, seed)
TrainTestSplitCell(d, seed) ==
    /\ Len(returned) < MaxCalls
    /\ \E draws \in DrawsFor(seed, Len(transaction_df.rows)) :
         \E out \in { TrainTestSplit(transaction_df, d, seed, draws) } :
            /\ transaction_df' = out.transaction_df
            /\ matrix_df' = out.matrix_df
            /\ np_random' = out.np_random
            /\ mt' = [s \in DOMAIN mt \cup {seed} |-> IF s = seed THEN draws ELSE mt[s]]
            /\ train_features' = out.train
            /\ train_labels' = out.train
            /\ test_features' = out.test
            /\ test_labels' = out.test
            /\ returned' = Append(returned, out.returned)
    /\ pc' = Advance("train_test_split", FALSE)
    /\ UNCHANGED <<loaded, fraud_percentage, evalVars, serviceVars, lambdaVars>>

\* linlearn.fit(formatted_train_data): returns when the training job has
\* completed, raises when it failed
FitCell ==
    /\ train_features.defined
    /\ \E completed \in BOOLEAN :
         /\ linlearn' = IF completed THEN "trained" ELSE linlearn
         /\ pc' = Advance("fit", ~completed)
    /\ UNCHANGED <<loaded, fraud_percentage, splitVars, evalVars, endpoint,
                   result, delete_called, delete_output, invoked, lambdaVars>>

\* linear_predictor = linlearn.deploy(...): returns when the endpoint is in
\* service; raises for an estimator that was not fitted, or when the
\* endpoint could not be created
DeployCell ==
    /\ \E created \in BOOLEAN :
         LET in_service == linlearn = "trained" /\ created
         IN /\ endpoint' = IF in_service THEN "InService" ELSE endpoint
            /\ pc' = Advance("deploy", ~in_service)
    /\ UNCHANGED <<loaded, fraud_percentage, splitVars, evalVars, linlearn,
                   result, delete_called, delete_output, invoked, lambdaVars>>

\* one invocation of the endpoint by a cell: what the endpoint, the
\* estimator and the tear-down were at when it was made
Invocation(cell) ==
    [cell |-> cell, linlearn |-> linlearn, endpoint |-> endpoint,
     delete_called |-> delete_called]

\* result = linear_predictor.predict(test_x_np[0]): raises without invoking
\* when there is no test row, and when the endpoint is not in service
PredictCell ==
    /\ test_features.defined
    /\ endpoint # "none"
    /\ LET no_row == test_features.lo > test_features.hi
       IN /\ invoked' = IF no_row THEN invoked ELSE invoked \cup { Invocation("predict") }
          /\ \E label \in Labels :
               result' = IF no_row \/ endpoint # "InService" THEN result ELSE label
          /\ pc' = Advance("predict", no_row \/ endpoint # "InService")
    /\ UNCHANGED <<loaded, fraud_percentage, splitVars, evalVars, linlearn,
                   endpoint, delete_called, delete_output, lambdaVars>>

\* metrics = evaluate(linear_predictor, test_features, test_labels): the
\* endpoint's model maps a feature vector to its predicted label
\* (predictor.predict raises when the endpoint is not in service)
EvaluateCell(model) ==
    /\ test_features.defined
    /\ endpoint # "none"
    /\ invoked' = invoked \cup { Invocation("evaluate") }
    /\ LET features == FeatureColumns(SliceRows(test_features))
           labels   == LabelColumn(SliceRows(test_labels))
       IN IF endpoint = "InService"
          THEN /\ predict_calls' = PredictCalls(model, features)
               /\ test_preds' = TestPreds(model, features)
               /\ metrics' = Evaluate(model, features, labels)
          ELSE UNCHANGED evalVars
    /\ pc' = Advance("evaluate", endpoint # "InService")
    /\ UNCHANGED <<loaded, fraud_percentage, splitVars, linlearn, endpoint,
                   result, delete_called, delete_output,
                   lambdaVars>>

\* (mutation) no try / except around the remote call
DeleteEndpointUnguarded(ep, deleted) ==
    LET succeeded == deleted /\ ep = "InService"
    IN [endpoint |-> IF succeeded THEN "Deleted" ELSE ep,
        remote   |-> IF succeeded THEN "succeeded" ELSE "raised",
        printed  |-> IF succeeded THEN "Deleted" ELSE "",
        raised   |-> ~succeeded]

\* delete_endpoint(predictor) on an endpoint in state ep: the remote deletion
\* succeeds only for an endpoint in service (deleted tells whether the
\* service then carries it out) and raises otherwise; the bare except turns
\* every exception into the 'Already deleted' message
DeleteEndpoint(ep, deleted) ==
    LET succeeded == deleted /\ ep = "InService"
    IN [endpoint |-> IF succeeded THEN "Deleted" ELSE ep,
        remote   |-> IF succeeded THEN "succeeded" ELSE "raised",
        printed  |-> IF succeeded THEN "Deleted" ELSE "Already deleted",
        raised   |-> FALSE]

\* delete_endpoint(linear_predictor): the service deletes the endpoint, or
\* the call fails and the bare except swallows the failure
DeleteEndpointCell ==
    /\ endpoint # "none"
    /\ Len(delete_output) < MaxDeletes
    /\ delete_called' = TRUE
    /\ \E deleted \in BOOLEAN :
         \E out \in { DeleteEndpoint(endpoint, deleted) } :
            /\ endpoint' = out.endpoint
            /\ delete_output' = Append(delete_output,
                   [remote |-> out.remote, printed |-> out.printed,
                    raised |-> out.raised])
            /\ pc' = Advance("delete_endpoint", out.raised)
    /\ UNCHANGED <<loaded, fraud_percentage, splitVars, evalVars, linlearn,
                   result, invoked, lambdaVars>>

\* ------------------------------------------------------------------------
\* README: the Lambda function behind the API, with the SNS alert
\* ------------------------------------------------------------------------
\* scores of the 'fraud' class in the endpoint's answer, in thousandths; a
\* score d/1000 is the double nearest to it
Scores == {0, 500, 899, 900, 901, 1000}

Score(d) == FloatDiv(d, 1000)

\* fraud = float(fraud_rate)*100, computed once per score
Fraud == [d \in Scores |-> MulInt(100, Score(d))]

\* the bound of "if fraud>=90"
AlertThreshold == 90

\* fraud >= n, for a double fraud >= 0 and an int n
AtLeast(z, n) == Trunc(z) >= n

HttpResponse(d) ==
    [statusCode |-> 200, body |-> d,
     headers |-> [ContentType |-> "application/json",
                  AccessControlAllowOrigin |-> "*"]]

\* the handler raised: the function returns no http_response
NoResponse == [statusCode |-> 0]

\* lambda_handler(event, context) for one request: invoke_endpoint answers
\* with the score d or raises, and sns.publish delivers or raises
LambdaHandler(answered, d, delivered) ==
    /\ Len(lambda_runs) < MaxRequests
    /\ LET alert == answered /\ AtLeast(Fraud[d], AlertThreshold)
           reply == IF answered THEN [ok |-> TRUE, score |-> d]
                                ELSE [ok |-> FALSE, score |-> 0]
           calls == IF ~answered THEN << "invoke_endpoint" >>
                    ELSE IF alert THEN << "invoke_endpoint", "read", "publish" >>
                    ELSE << "invoke_endpoint", "read" >>
           returns == answered /\ (alert => delivered)
       IN /\ lambda_runs' = Append(lambda_runs,
                 [reply |-> reply, calls |-> calls,
                  http_response |-> IF returns THEN HttpResponse(d) ELSE NoResponse])
          /\ sns_topic' = IF alert /\ delivered
                          THEN Append(sns_topic, [Subject |-> "Transaction Alert",
                                                  request |-> Len(lambda_runs) + 1])
                          ELSE sns_topic
    /\ UNCHANGED <<loaded, fraud_percentage, splitVars, evalVars, pc, serviceVars>>

\* ------------------------------------------------------------------------
\* Specifications
\* ------------------------------------------------------------------------
Unseeded == [seed |-> 0, pos |-> 0]

NoFunction == [s \in {} |-> <<>>]

\* the columns of creditcard.csv: Time, V1 .. V28, Amount and, last, Class
NumColumns == 31

InitTableOfShape(rows, single, columns) ==
    /\ transaction_df = [rows |-> rows, single_dtype |-> single, columns |-> columns]
    /\ loaded = rows
    /\ fraud_percentage = None
    /\ test_preds = <<>>
    /\ predict_calls = <<>>
    /\ metrics = NoMetrics

InitTable(rows, single) == InitTableOfShape(rows, single, NumColumns)

\* no estimator fitted, no endpoint, nothing invoked
InitNoService ==
    /\ linlearn = "created"
    /\ endpoint = "none"
    /\ result = None
    /\ delete_called = FALSE
    /\ delete_output = <<>>
    /\ invoked = {}

\* the Lambda function has handled no request
InitNoRequest ==
    /\ lambda_runs = <<>>
    /\ sns_topic = <<>>

\* the cells are run by hand: "Run All" is not under way
InitByHand ==
    /\ pc = "done"
    /\ InitNoService
    /\ InitNoRequest

InitNoSplit ==
    /\ np_random = Unseeded
    /\ matrix_df = [view |-> FALSE, rows |-> <<>>]
    /\ train_features = NoSlice
    /\ train_labels = NoSlice
    /\ test_features = NoSlice
    /\ test_labels = NoSlice
    /\ returned = <<>>

\* the notebook after pd.read_csv: any small table, of one dtype or mixed
Init ==
    /\ \E rows \in Tables(MaxRows), single \in BOOLEAN : InitTable(rows, single)
    /\ mt = NoFunction
    /\ InitNoSplit
    /\ InitByHand

Next ==
    \/ FraudPercentageCell
    \/ \E d \in TestSizes, seed \in Seeds : TrainTestSplitCell(d, seed)

Spec == Init /\ [][Next]_vars

\* draws that leave every row in place, and draws that all pick row 0
KeepDraws(n) == [k \in 1..(n - 1) |-> n - k]

FrontDraws(n) == [k \in 1..(n - 1) |-> 0]

\* larger tables, for the arithmetic of the ratio and of the cut: the first k
\* rows are fraud, and the generator's draws are one of the two above
InitCut ==
    /\ \E n \in 0..MaxCutRows, single \in BOOLEAN : \E k \in 0..n :
         /\ InitTable(Table(n, [i \in 1..n |-> IF i <= k THEN 1 ELSE 0]), single)
         /\ mt \in [Seeds -> { KeepDraws(n), FrontDraws(n) }]
    /\ InitNoSplit
    /\ InitByHand

SpecCut == InitCut /\ [][Next]_vars

\* tables of about a hundred rows, at most one of them fraud, the generator's
\* draws as in InitCut
InitScenario ==
    /\ \E n \in ScenarioRows, single \in BOOLEAN : \E k \in 0..1 :
         /\ InitTable(Table(n, [i \in 1..n |-> IF i <= k THEN 1 ELSE 0]), single)
         /\ mt \in [Seeds -> { KeepDraws(n), FrontDraws(n) }]
    /\ InitNoSplit
    /\ InitByHand

SpecScenario == InitScenario /\ [][Next]_vars

\* tables whose column count is not that of the layout (a feature column
\* missing or one too many, 'Class' still the last), the generator's draws
\* as in InitCut
InitShape ==
    /\ \E rows \in Tables(MaxRows), single \in BOOLEAN,
          columns \in { NumColumns - 1, NumColumns + 1 } :
         /\ InitTableOfShape(rows, single, columns)
         /\ mt \in [Seeds -> { KeepDraws(Len(rows)), FrontDraws(Len(rows)) }]
    /\ InitNoSplit
    /\ InitByHand

SpecShape == InitShape /\ [][Next]_vars

\* the split cell called with test_size at the ends of its range, or with
\* the default 0.3, on the tables of InitCut
NextEdge ==
    \E d \in EdgeTestSizes \cup {30}, seed \in Seeds : TrainTestSplitCell(d, seed)

SpecEdge == InitCut /\ [][NextEdge]_vars

\* the notebook after the split cell ran with test_size = 0.8 on a table of
\* at most MaxEvalRows rows (the draws leaving the rows in place), the
\* estimator fitted and deployed
InitEval ==
    \E rows \in Tables(MaxEvalRows), single \in BOOLEAN :
       LET df  == [rows |-> rows, single_dtype |-> single, columns |-> NumColumns]
           out == TrainTestSplit(df, 80, 1, KeepDraws(Len(rows)))
       IN /\ InitTable(out.transaction_df.rows, single)
          /\ mt = [s \in {1} |-> KeepDraws(Len(rows))]
          /\ np_random = out.np_random
          /\ matrix_df = out.matrix_df
          /\ train_features = out.train
          /\ train_labels = out.train
          /\ test_features = out.test
          /\ test_labels = out.test
          /\ returned = << out.returned >>
          /\ pc = "done"
          /\ linlearn = "trained"
          /\ endpoint = "InService"
          /\ result = None
          /\ delete_called = FALSE
          /\ delete_output = <<>>
          /\ invoked = {}
          /\ InitNoRequest

NextEval ==
    \E model \in [{ r.x : r \in { transaction_df.rows[i] : i \in DOMAIN transaction_df.rows } } -> Labels] :
       EvaluateCell(model)

SpecEval == InitEval /\ [][NextEval]_vars

\* sizes of the test set: one row, and sizes around the number of batches and
\* around a hundred rows per batch
BatchRows ==
    { 1, NumBatches - 1, NumBatches, NumBatches + 1, MaxTestRows - 1, MaxTestRows }

\* the notebook after the split cell ran with test_size = 1 (every row a test
\* row), the draws leaving the rows in place, the estimator fitted and
\* deployed; the first k rows are fraud
InitBatch ==
    \E n \in BatchRows, k \in 0..1, single \in BOOLEAN :
       LET rows == SubSeq(Table(n, [i \in 1..n |-> IF i <= k THEN 1 ELSE 0]), 1, n)
       IN /\ InitTable(rows, single)
          /\ mt = [s \in {1} |-> KeepDraws(n)]
          /\ np_random = [seed |-> 1, pos |-> n - 1]
          /\ matrix_df = [view |-> single, rows |-> IF single THEN <<>> ELSE rows]
          /\ train_features = TrainSlice(0, n)
          /\ train_labels = TrainSlice(0, n)
          /\ test_features = TestSlice(0, n)
          /\ test_labels = TestSlice(0, n)
          /\ returned = << [seed |-> 1, test_size |-> 100, table |-> rows,
                            shuffled |-> rows,
                            train_features |-> <<>>, train_labels |-> <<>>,
                            test_features |-> FeatureColumns(rows),
                            test_labels |-> LabelColumn(rows)] >>
          /\ pc = "done"
          /\ linlearn = "trained"
          /\ endpoint = "InService"
          /\ result = None
          /\ delete_called = FALSE
          /\ delete_output = <<>>
          /\ invoked = {}
          /\ InitNoRequest

\* models of the endpoint: all valid, all fraud, every other row fraud, the
\* first row fraud
BatchModels(n) ==
    { [x \in 1..n |-> 0], [x \in 1..n |-> 1], [x \in 1..n |-> x % 2],
      [x \in 1..n |-> IF x = 1 THEN 1 ELSE 0] }

NextBatch == \E model \in BatchModels(Len(loaded)) : EvaluateCell(model)

SpecBatch == InitBatch /\ [][NextBatch]_vars

\* "Run All" on the loaded notebook: the cells run top to bottom, each when
\* the one before it has returned, and the run stops at a cell that raises.
\* The split cell passes test_size=0.3 and leaves seed at its default 1
InitRun ==
    /\ \E rows \in Tables(MaxRows), single \in BOOLEAN : InitTable(rows, single)
    /\ mt = NoFunction
    /\ InitNoSplit
    /\ pc = Cells[1]
    /\ InitNoService
    /\ InitNoRequest

RunAll ==
    \/ pc = "fraud_percentage" /\ FraudPercentageCell
    \/ pc = "train_test_split" /\ TrainTestSplitCell(30, 1)
    \/ pc = "fit" /\ FitCell
    \/ pc = "deploy" /\ DeployCell
    \/ pc = "predict" /\ PredictCell
    \/ pc = "evaluate" /\
         \E model \in [{ r.x : r \in { loaded[i] : i \in DOMAIN loaded } } -> Labels] :
            EvaluateCell(model)
    \/ pc = "delete_endpoint" /\ DeleteEndpointCell

SpecRun == InitRun /\ [][RunAll]_vars

\* the delete cell run by hand, again and again, on the deployed endpoint
SpecDelete == InitEval /\ [][DeleteEndpointCell]_vars

\* the deployed Lambda function, one request after the other
InitLambda ==
    /\ InitTable(<<>>, FALSE)
    /\ mt = NoFunction
    /\ InitNoSplit
    /\ InitByHand

NextLambda ==
    \E answered \in BOOLEAN, d \in Scores, delivered \in BOOLEAN :
       LambdaHandler(answered, d, delivered)

SpecLambda == InitLambda /\ [][NextLambda]_vars

\* ------------------------------------------------------------------------
\* Properties
\* ------------------------------------------------------------------------
FraudCount(rows) == Cardinality({ i \in 1..Len(rows) : rows[i].y = 1 })

\* C1: on a non-empty table with labels 0/1, fraudulent_percentage returns
\* (rows with label 1) / (all rows), a value in [0, 1]
C1_FraudRatio ==
    (fraud_percentage # None /\ Len(transaction_df.rows) > 0) =>
        /\ fraud_percentage =
             FloatDiv(FraudCount(transaction_df.rows), Len(transaction_df.rows))
        /\ InUnitInterval(fraud_percentage)

\* 10 rows, exactly one of them fraud: the ratio is the double 0.1
C1_Witness ==
    /\ Len(transaction_df.rows) = 10
    /\ FraudCount(transaction_df.rows) = 1
    /\ fraud_percentage = Literal(10)

TrainRows == SliceRows(train_features)

TestRows == SliceRows(test_features)

Occurrences(rows, row) == Cardinality({ p \in 1..Len(rows) : rows[p] = row })

\* C2: the train rows and the test rows returned are disjoint and exhaustive:
\* train followed by test holds every row of the table exactly once
C2_DisjointExhaustive ==
    train_features.defined =>
        /\ \A i \in 1..Len(loaded) : Occurrences(TrainRows \o TestRows, loaded[i]) = 1
        /\ Len(TrainRows \o TestRows) = Len(loaded)
        /\ \A p \in 1..Len(TrainRows), q \in 1..Len(TestRows) : TrainRows[p] # TestRows[q]

\* both partitions hold rows, and the shuffle moved some row
C2_Witness ==
    /\ train_features.defined
    /\ Len(TrainRows) >= 1
    /\ Len(TestRows) >= 1
    /\ TrainRows \o TestRows # loaded

\* C3: the number of training rows plus the number of test rows is the
\* table's row count, and features and labels of a partition are equally long
C3_CountsAddUp ==
    train_features.defined =>
        /\ Len(FeatureColumns(SliceRows(train_features)))
             + Len(FeatureColumns(SliceRows(test_features))) = Len(loaded)
        /\ Len(FeatureColumns(SliceRows(train_features)))
             = Len(LabelColumn(SliceRows(train_labels)))
        /\ Len(FeatureColumns(SliceRows(test_features)))
             = Len(LabelColumn(SliceRows(test_labels)))

\* a table of three rows split 2 : 1
C3_Witness ==
    /\ train_features.defined
    /\ Len(loaded) = 3
    /\ Len(LabelColumn(SliceRows(train_labels))) = 2
    /\ Len(LabelColumn(SliceRows(test_labels))) = 1

SameAssignment(a, b) ==
    /\ a.train_features = b.train_features
    /\ a.train_labels = b.train_labels
    /\ a.test_features = b.test_features
    /\ a.test_labels = b.test_labels

\* C4: train_test_split is deterministic: two calls on the same table object
\* with the same seed and test_size return the same train/test assignment
C4_SplitDeterministic ==
    \A i, j \in DOMAIN returned :
        (returned[i].seed = returned[j].seed
           /\ returned[i].test_size = returned[j].test_size)
        => SameAssignment(returned[i], returned[j])

\* C5: a call to train_test_split leaves the caller's table unchanged, row
\* contents and row order
C5_TableNeverMutated == transaction_df.rows = loaded

ExactFloor(n, d) == (n * (100 - d)) \div 100

CutsAt(r, cut) ==
    LET n == Len(r.table)
    IN /\ r.train_features = FeatureColumns(SubSeq(r.shuffled, 1, cut))
       /\ r.train_labels = LabelColumn(SubSeq(r.shuffled, 1, cut))
       /\ r.test_features = FeatureColumns(SubSeq(r.shuffled, cut + 1, n))
       /\ r.test_labels = LabelColumn(SubSeq(r.shuffled, cut + 1, n))

\* C6 (as stated): the cut index is floor(total_rows * (1 - test_size)); the
\* rows before it are the training partition, the rows from it on the test
\* partition
C6_CutAtExactFloor ==
    \A c \in DOMAIN returned :
        CutsAt(returned[c], ExactFloor(Len(returned[c].table), returned[c].test_size))

\* C6 (amended): the cut index is the truncated double product; it is
\* floor(total_rows * (1 - test_size)) unless that product is an integer k,
\* where it is k or k - 1; rows before the cut are the training partition,
\* rows from it on the test partition
C6_CutAtRoundedProduct ==
    \A c \in DOMAIN returned :
        LET r   == returned[c]
            e   == Len(r.table) * (100 - r.test_size)
            cut == Len(r.train_features)
        IN /\ IF e % 100 = 0
              THEN cut \in { e \div 100, e \div 100 - 1 } /\ cut >= 0
              ELSE cut = e \div 100
           /\ CutsAt(r, cut)

\* 5 rows at test_size 0.8: 5 * (1 - 0.8) is 1 but the training part is empty
C6_Witness ==
    \E c \in DOMAIN returned :
        /\ Len(returned[c].table) = 5
        /\ returned[c].test_size = 80
        /\ returned[c].train_features = <<>>
        /\ Len(returned[c].test_features) = 5

Evaluated == metrics.Accuracy # None

EvalLabels == LabelColumn(SliceRows(test_labels))

\* C7: TP + FP + TN + FN is the length of the label sequence, each count a
\* non-negative integer
C7_CountsSumToLength ==
    Evaluated =>
        /\ metrics.TP + metrics.FP + metrics.TN + metrics.FN = Len(EvalLabels)
        /\ \A k \in { metrics.TP, metrics.FP, metrics.TN, metrics.FN } : k \in Nat

\* three or more test rows of both classes, predicted in both classes
C7_Witness ==
    /\ Evaluated
    /\ Len(EvalLabels) >= 3
    /\ metrics.TP + metrics.FN >= 1
    /\ metrics.FP + metrics.TN >= 1
    /\ metrics.TP + metrics.FP >= 1
    /\ metrics.TN + metrics.FN >= 1

Pairs(p, a) ==
    Cardinality({ i \in 1..Len(EvalLabels) : test_preds[i] = p /\ EvalLabels[i] = a })

\* C8: TP counts predicted 1 / actual 1, FP predicted 1 / actual 0, TN
\* predicted 0 / actual 0, FN predicted 0 / actual 1
C8_CountsMatchReference ==
    Evaluated =>
        /\ Len(test_preds) = Len(EvalLabels)
        /\ metrics.TP = Pairs(1, 1)
        /\ metrics.FP = Pairs(1, 0)
        /\ metrics.TN = Pairs(0, 0)
        /\ metrics.FN = Pairs(0, 1)

\* predicted [1,0,1,0] against actual [1,1,0,0]: one of each, accuracy 0.5
C8_Witness ==
    /\ Evaluated
    /\ test_preds = <<1, 0, 1, 0>>
    /\ EvalLabels = <<1, 1, 0, 0>>
    /\ metrics.TP = 1 /\ metrics.FP = 1 /\ metrics.FN = 1 /\ metrics.TN = 1
    /\ metrics.Accuracy = FloatDiv(1, 2)

\* C9: with non-zero denominators, recall = TP/(TP+FN), precision =
\* TP/(TP+FP), accuracy = (TP+TN)/(TP+FP+TN+FN), of the counts returned
C9_MetricsFromCounts ==
    Evaluated =>
        /\ metrics.TP + metrics.FN > 0 =>
             metrics.Recall = FloatDiv(metrics.TP, metrics.TP + metrics.FN)
        /\ metrics.TP + metrics.FP > 0 =>
             metrics.Precision = FloatDiv(metrics.TP, metrics.TP + metrics.FP)
        /\ metrics.TP + metrics.FP + metrics.TN + metrics.FN > 0 =>
             metrics.Accuracy =
               FloatDiv(metrics.TP + metrics.TN,
                        metrics.TP + metrics.FP + metrics.TN + metrics.FN)

\* recall 1/3, precision 1/2, accuracy 1/4
C9_Witness ==
    /\ Evaluated
    /\ metrics.TP = 1 /\ metrics.FP = 1 /\ metrics.FN = 2 /\ metrics.TN = 0
    /\ metrics.Recall = FloatDiv(1, 3)
    /\ metrics.Precision = FloatDiv(1, 2)
    /\ metrics.Accuracy = FloatDiv(1, 4)

\* C10: a zero denominator gives an explicit undefined-metric result: no
\* metric that evaluate returns is NaN
C10_NoSilentNaN ==
    Evaluated =>
        \A m \in { metrics.Recall, metrics.Precision, metrics.Accuracy } : m.kind # "nan"

\* C11: on an empty table fraudulent_percentage fails with a division by
\* zero and returns no number
C11_EmptyTableRaises ==
    (fraud_percentage # None /\ Len(transaction_df.rows) = 0) =>
        fraud_percentage = ZeroDivisionError

\* the fraud percentage cell ran on an empty table
C11_Witness ==
    /\ Len(transaction_df.rows) = 0
    /\ fraud_percentage.kind = "ZeroDivisionError"

\* C13: when every label of the table is 0 or 1, so is every element of the
\* train labels and of the test labels returned
C13_LabelsBinary ==
    /\ \A c \in DOMAIN returned :
         (\A i \in 1..Len(returned[c].table) : returned[c].table[i].y \in {0, 1}) =>
            /\ \A i \in DOMAIN returned[c].train_labels : returned[c].train_labels[i] \in {0, 1}
            /\ \A i \in DOMAIN returned[c].test_labels : returned[c].test_labels[i] \in {0, 1}
    /\ (train_labels.defined /\ \A i \in 1..Len(loaded) : loaded[i].y \in {0, 1}) =>
         /\ \A i \in 1..Len(TrainRows) : LabelColumn(SliceRows(train_labels))[i] \in {0, 1}
         /\ \A i \in 1..Len(TestRows) : LabelColumn(SliceRows(test_labels))[i] \in {0, 1}

\* a split of three rows of both classes, both classes among the train labels
C13_Witness ==
    \E c \in DOMAIN returned :
        /\ Len(returned[c].table) = 3
        /\ { returned[c].train_labels[i] : i \in DOMAIN returned[c].train_labels } = {0, 1}
        /\ Len(returned[c].test_labels) = 1

\* round(z): the nearest integer, ties to even, of a double 0 <= z < 2^29
RoundHalfEven(z) ==
    IF z.kind = "zero" \/ z.exp < -1 THEN 0
    ELSE LET whole  == IF z.exp < 0 THEN 0 ELSE BitsNat(SubSeq(z.sig, 1, z.exp + 1))
             guard  == z.sig[z.exp + 2]
             sticky == \E i \in (z.exp + 3)..Precision : z.sig[i] = 1
         IN IF guard = 1 /\ (sticky \/ whole % 2 = 1) THEN whole + 1 ELSE whole

\* fraud_percentage * transaction_df.shape[0]
RatioTimesRows == MulInt(Len(transaction_df.rows), fraud_percentage)

\* C14: on a non-empty table the returned ratio times the row count rounds
\* to the number of fraud rows
C14_RatioRoundsToCount ==
    (fraud_percentage # None /\ Len(transaction_df.rows) > 0) =>
        RoundHalfEven(RatioTimesRows) = FraudCount(transaction_df.rows)

\* 98 rows, one fraud: the product is 0.9999999999999999, which rounds to 1
C14_Witness ==
    /\ Len(transaction_df.rows) = 98
    /\ FraudCount(transaction_df.rows) = 1
    /\ fraud_percentage.kind = "num"
    /\ RatioTimesRows # FOne
    /\ RoundHalfEven(RatioTimesRows) = 1

C17_HundredRows ==
    \A c \in DOMAIN returned :
        (Len(returned[c].table) = 100 /\ returned[c].test_size = 30) =>
            /\ Len(returned[c].train_features) = 70
            /\ Len(returned[c].train_labels) = 70
            /\ Len(returned[c].test_features) = 30
            /\ Len(returned[c].test_labels) = 30

\* the split cell ran on 100 rows at test_size 0.3
C17_Witness ==
    /\ Len(loaded) = 100
    /\ train_features.defined
    /\ returned[Len(returned)].test_size = 30
    /\ Len(TrainRows) = 70
    /\ Len(TestRows) = 30

\* C18: the training rows followed by the test rows, in the order returned,
\* are the shuffled sequence: the table's rows after the swaps of the draws
\* that the generator gave for the seed
C18_PostShuffleOrder ==
    \A c \in DOMAIN returned :
        LET r        == returned[c]
            shuffled == Shuffle(r.table, mt[r.seed])
        IN /\ r.train_features \o r.test_features = FeatureColumns(shuffled)
           /\ r.train_labels \o r.test_labels = [i \in 1..Len(shuffled) |-> shuffled[i].y]

\* two training rows returned against their order in the table
C18_Witness ==
    \E c \in DOMAIN returned :
        /\ returned[c].table = loaded
        /\ Len(returned[c].train_features) = 2
        /\ returned[c].train_features[1] > returned[c].train_features[2]

\* C15: the functions share no mutable state: no call changes the state of
\* the process-wide random generator (np.random), which outlives the call
C15_GeneratorUntouched == [][np_random' = np_random]_vars

\* C12: a table whose column count is not that of the layout is rejected
\* before any computation: no ratio is returned for it, it is not shuffled,
\* and train_test_split returns nothing for it
C12_MalformedRejected ==
    transaction_df.columns # NumColumns =>
        /\ fraud_percentage.kind \notin { "zero", "num" }
        /\ transaction_df.rows = loaded
        /\ returned = <<>>

\* fraud > n, for a double fraud >= 0 and an int n
Over(z, n) == Trunc(z) > n \/ (Trunc(z) = n /\ z # FloatDiv(n, 1))

\* C19: the handler publishes to SNS for a request exactly when the
\* predicted fraud rate is over 90%: score * 100 > 90
C19_AlertExactlyOver90 ==
    \A i \in DOMAIN lambda_runs :
        LET run == lambda_runs[i]
        IN run.reply.ok =>
             (("publish" \in { run.calls[k] : k \in DOMAIN run.calls })
                <=> Over(Fraud[run.reply.score], 90))

\* C20: the endpoint is invoked, by the test prediction and by evaluate, only
\* with the estimator fitted and the endpoint in service, and never after
\* delete_endpoint was called
C20_InvokedOnlyWhileDeployed ==
    \A v \in invoked :
        /\ v.linlearn = "trained"
        /\ v.endpoint = "InService"
        /\ ~v.delete_called

\* the run went through: both cells invoked the endpoint, then it was deleted
C20_Witness ==
    /\ pc = "done"
    /\ { v.cell : v \in invoked } = { "predict", "evaluate" }
    /\ delete_called
    /\ endpoint = "Deleted"

\* C21: a call of fraudulent_percentage leaves the rows and labels of the
\* table as they were, on an empty table too (in these specifications a step
\* that returns nothing from train_test_split is such a call)
C21_NoSideEffects ==
    [][returned' = returned => transaction_df' = transaction_df]_vars

\* the ratio was computed on a table of both classes, which is as loaded
C21_Witness ==
    /\ fraud_percentage.kind = "num"
    /\ returned = <<>>
    /\ FraudCount(transaction_df.rows) = 1
    /\ Len(transaction_df.rows) = 2
    /\ transaction_df.rows = loaded

\* C22: test_size = 0 puts all rows in the training partition and none in
\* the test partition, test_size = 1 none in training and all in test, and
\* one row at test_size = 0.3 leaves the training partition empty
C22_EdgePartitions ==
    \A c \in DOMAIN returned :
         LET r == returned[c]
             n == Len(r.table)
         IN /\ r.test_size = 0 =>
                 Len(r.train_features) = n /\ Len(r.train_labels) = n
                 /\ r.test_features = <<>> /\ r.test_labels = <<>>
            /\ r.test_size = 100 =>
                 r.train_features = <<>> /\ r.train_labels = <<>>
                 /\ Len(r.test_features) = n /\ Len(r.test_labels) = n
            /\ (r.test_size = 30 /\ n = 1) =>
                 r.train_features = <<>> /\ Len(r.test_features) = 1

\* three rows were split at test_size 0 and then at test_size 1
C22_Witness ==
    /\ Len(returned) = 2
    /\ Len(loaded) = 3
    /\ returned[1].test_size = 0 /\ Len(returned[1].train_features) = 3
    /\ returned[2].test_size = 100 /\ Len(returned[2].test_features) = 3

\* C23: in each returned partition the i-th label is the label that the
\* table paired with the i-th feature vector
C23_RowsIntact ==
    \A c \in DOMAIN returned :
        LET r     == returned[c]
            table == { r.table[j] : j \in DOMAIN r.table }
        IN /\ Len(r.train_labels) = Len(r.train_features)
           /\ Len(r.test_labels) = Len(r.test_features)
           /\ \A i \in DOMAIN r.train_features :
                 [x |-> r.train_features[i], y |-> r.train_labels[i]] \in table
           /\ \A i \in DOMAIN r.test_features :
                 [x |-> r.test_features[i], y |-> r.test_labels[i]] \in table

\* three rows of both classes were returned in another order than the table's
C23_Witness ==
    \E c \in DOMAIN returned :
        LET r == returned[c]
        IN /\ Len(r.table) = 3
           /\ { r.table[j].y : j \in DOMAIN r.table } = {0, 1}
           /\ r.train_features \o r.test_features # FeatureColumns(r.table)
           /\ r.train_labels \o r.test_labels # LabelColumn(r.table)

\* the batches passed to predictor.predict, and the labels it returned
Batches == [b \in DOMAIN predict_calls |-> predict_calls[b].batch]

Predicted == [b \in DOMAIN predict_calls |-> predict_calls[b].predicted]

\* C24: the batches passed to predictor.predict, concatenated in order, are
\* the test features; each call returns one prediction per row of its batch,
\* and the predictions concatenated are test_preds, as long as test_labels
C24_BatchingLosesNothing ==
    Evaluated =>
        /\ Concatenate(Batches, 1, Len(Batches)) = FeatureColumns(SliceRows(test_features))
        /\ \A b \in DOMAIN predict_calls :
              Len(predict_calls[b].predicted) = Len(predict_calls[b].batch)
        /\ Concatenate(Predicted, 1, Len(Predicted)) = test_preds
        /\ Len(test_preds) = Len(EvalLabels)

\* 101 test rows: the first batch holds two rows, the others one, and rows
\* of both predicted classes came back
C24_Witness ==
    /\ Evaluated
    /\ Len(EvalLabels) = 101
    /\ Len(predict_calls[1].batch) = 2
    /\ Len(predict_calls[2].batch) = 1
    /\ test_preds[1] = 1 /\ test_preds[2] = 0 /\ test_preds[101] = 1

\* C25: every batch passed to predictor.predict holds at most 100 rows
C25_BatchesOfAtMost100 ==
    \A b \in DOMAIN predict_calls : Len(predict_calls[b].batch) <= 100

\* C26: no call of delete_endpoint raises; a call whose remote deletion
\* succeeds prints 'Deleted', a call whose remote deletion raises prints
\* 'Already deleted', and after a call that printed 'Deleted' every later
\* call prints 'Already deleted'
C26_DeleteNeverRaises ==
    /\ pc # "halted" \/ Len(delete_output) = 0
    /\ \A i \in DOMAIN delete_output :
         LET call == delete_output[i]
         IN /\ ~call.raised
            /\ call.remote = "succeeded" => call.printed = "Deleted"
            /\ call.remote = "raised" => call.printed = "Already deleted"
            /\ call.printed = "Deleted" =>
                  \A j \in (i + 1)..Len(delete_output) :
                     delete_output[j].printed = "Already deleted"

\* a failed remote deletion, then a successful one, then a call on the
\* deleted endpoint
C26_Witness ==
    /\ Len(delete_output) = 3
    /\ delete_output[1].remote = "raised"
    /\ delete_output[2].printed = "Deleted"
    /\ delete_output[3].printed = "Already deleted"
    /\ endpoint = "Deleted"

\* the places of a call among the calls a handler run made
Places(run, call) == { k \in DOMAIN run.calls : run.calls[k] = call }

\* C27: for a request whose endpoint invocation succeeds the handler invokes
\* the endpoint exactly once, publishes at most once and only after it read
\* the response, and returns statusCode 200 with the response as body and
\* the header Access-Control-Allow-Origin '*'
C27_OneInvocationThen200 ==
    \A i \in DOMAIN lambda_runs :
        LET run == lambda_runs[i]
        IN run.reply.ok =>
             /\ Cardinality(Places(run, "invoke_endpoint")) = 1
             /\ Cardinality(Places(run, "publish")) <= 1
             /\ \A p \in Places(run, "publish") : \E k \in Places(run, "read") : k < p
             /\ run.http_response.statusCode = 200
             /\ run.http_response = HttpResponse(run.reply.score)
             /\ run.http_response.headers.AccessControlAllowOrigin = "*"

====
